---- MODULE Spec2Model ----
(***************************************************************************)
(* The Ringgem setup script (src/main.py) as a state machine.              *)
(*                                                                         *)
(* One run of the script is one behaviour: the command line is parsed,     *)
(* logging is configured, the interpreter version is checked, and main()   *)
(* walks its fixed sequence of fetches, subprocesses and filesystem        *)
(* operations.  The environment (network, child processes, filesystem,     *)
(* the user's Ctrl-C) chooses the outcome of every operation.              *)
(*                                                                         *)
(* Environment scope: a KeyboardInterrupt is modelled while main() runs    *)
(* (line 164, inside the try block); the filesystem starts without the     *)
(* files the script produces, the destination directory may pre-exist.     *)
(***************************************************************************)
EXTENDS Integers, Sequences, FiniteSets, TLC

\* ---------------------------------------------------------------- bounds
\* longest command line explored (number of tokens after the script name)
MaxArgs == 4
\* child processes exit with a code in 0..MaxRc
MaxRc == 2

\* ------------------------------------------------------- program constants
\* logging levels of the `levels` list, main.py line 21
ERROR == 40
WARNING == 30
INFO == 20
DEBUG == 10

\* sys.version_info < (3, 12), main.py line 159
MinMajor == 3
MinMinor == 12

\* ------------------------------------------------------------- variables
VARIABLES
  argv,        \* the command line (input, fixed during the run)
  pyVersion,   \* <<major, minor>> of the interpreter (input)
  pc,          \* the statement the process is at
  verbosity,   \* args.verbose
  level,       \* threshold of the root logger
  log,         \* every logging call made, with whether the handler emitted it
  fs,          \* state of each file the script touches
  cwd,         \* working directory
  hist,        \* the operations main() attempted, in order, with their outcome
  call,        \* arguments of the latest run_command call
  lastResult,  \* value the latest run_command call returned
  exitCode     \* <<>> while running, <<code>> once the process has exited

vars == <<argv, pyVersion, pc, verbosity, level, log, fs, cwd, hist, call,
          lastResult, exitCode>>

\* ---------------------------------------------------------------- inputs
Tokens == {"-v", "--verbose", "-h", "--bogus"}

ArgvSet == UNION {[1..n -> Tokens] : n \in 0..MaxArgs}

PyVersions == {<<3, 11>>, <<3, 12>>, <<3, 13>>}

Stdouts == {"", "\n", "ok\n"}

TmpScript == "tmpXXXX.sh"
TaskBin == "task"
RinggemZip == "ringgem.zip"
ZipInstaller == "install-zip-on-linux.sh"
Taskfile == "Taskfile.yaml"
RinggemDir == "~/.local/share/ringgem"
RinggemMasterDir == "~/.local/share/ringgem/ringgem-master"

Files == {TmpScript, TaskBin, RinggemZip, ZipInstaller, Taskfile, RinggemDir,
          RinggemMasterDir}

\* the four command lines main() hands to run_command
CmdBashTmp == "bash tmpXXXX.sh"
CmdInstallZip == "task install-zip-on-linux"
CmdListAll == "task --dir=~/.local/share/ringgem/ringgem-master --list-all"
CmdInstallTestscript == "task --dir=~/.local/share/ringgem/ringgem-master install-testscript-on-linux"

Commands == {CmdBashTmp, CmdInstallZip, CmdListAll, CmdInstallTestscript}

\* the urls table of main()
Urls == [go_task_installer |-> "https://raw.githubusercontent.com/taylormonacelli/ringgem/master/install-go-task-on-linux.sh",
         ringgem_zip |-> "https://github.com/taylormonacelli/ringgem/archive/refs/heads/master.zip",
         zip_installer |-> "https://raw.githubusercontent.com/gkwa/ringgem/refs/heads/master/install-zip-on-linux.sh",
         taskfile |-> "https://raw.githubusercontent.com/gkwa/ringgem/refs/heads/master/Taskfile.yaml"]

NoCall == [cmd |-> "", check |-> TRUE]
NoResult == [returncode |-> 0 - 1, stdout |-> ""]

\* ---------------------------------------------------------------- logging
\* a logging.<level>(msg) call: the record is emitted when its level reaches
\* the threshold basicConfig installed
LogCall(lg, lvl, recLevel, text, arg) ==
  Append(lg, [level |-> recLevel, msg |-> <<text, arg>>, emitted |-> recLevel >= lvl])

Min(a, b) == IF a <= b THEN a ELSE b

\* setup_logging: levels[min(verbosity, len(levels) - 1)]
SetupLoggingLevel(v) ==
  LET levels == <<ERROR, WARNING, INFO, DEBUG>>
  IN levels[Min(v, Len(levels) - 1) + 1]

\* ---------------------------------------------------------- argument parser
RECURSIVE CountVerbose(_)
CountVerbose(args) ==
  IF args = <<>> THEN 0
  ELSE (IF Head(args) \in {"-v", "--verbose"} THEN 1 ELSE 0) + CountVerbose(Tail(args))

Contains(args, tok) == \E i \in 1..Len(args) : args[i] = tok

\* parser.parse_args(): the help action exits 0 as soon as it is met, an
\* unrecognised argument is reported after the scan and exits 2, otherwise
\* the count action yields the number of -v/--verbose (default 0)
ParseArgs(args) ==
  IF Contains(args, "-h") THEN [exit |-> <<0>>, verbose |-> 0]
  ELSE IF Contains(args, "--bogus") THEN [exit |-> <<2>>, verbose |-> 0]
  ELSE [exit |-> <<>>, verbose |-> CountVerbose(args)]

\* ------------------------------------------------------------ version gate
VersionTooOld_AcceptsOlder(v) ==
  v[1] < MinMajor \/ (v[1] = MinMajor /\ v[2] < MinMinor - 1)

\* sys.version_info < (3, 12): tuple comparison
VersionTooOld(v) ==
  v[1] < MinMajor \/ (v[1] = MinMajor /\ v[2] < MinMinor)

\* ------------------------------------------------------------ run_command
\* str.strip() on the outputs the children produce
Strip(s) == IF s = "ok\n" THEN "ok" ELSE ""

\* run_command with the sys.exit(1) of line 46 dropped: the failure is returned
RunCommand_NoExit(cmd, check, proc, lvl, lg) ==
  LET lg1 == LogCall(lg, lvl, DEBUG, "Running command:", cmd)
  IN IF proc.outcome = "sigint"
       THEN [log |-> lg1, exit |-> <<>>, raise |-> "KeyboardInterrupt", result |-> NoResult]
     ELSE IF proc.outcome = "OSError"
       THEN [log |-> lg1, exit |-> <<>>, raise |-> "Exception", result |-> NoResult]
     ELSE IF check /\ proc.rc # 0
       THEN LET lg2 == LogCall(lg1, lvl, ERROR, "Command failed:", cmd)
                lg3 == LogCall(lg2, lvl, ERROR, "Exit code:", ToString(proc.rc))
                lg4 == LogCall(lg3, lvl, ERROR, "Error output:", "stderr")
            IN [log |-> lg4, exit |-> <<>>, raise |-> "none",
                result |-> [returncode |-> proc.rc, stdout |-> proc.out]]
     ELSE [log |-> IF proc.out # "" THEN LogCall(lg1, lvl, INFO, "stdout:", Strip(proc.out)) ELSE lg1,
           exit |-> <<>>, raise |-> "none",
           result |-> [returncode |-> proc.rc, stdout |-> proc.out]]

\* run_command that ignores its check parameter: subprocess.run(check=True)
\* and an unconditional sys.exit(1)
RunCommand_IgnoresCheck(cmd, check, proc, lvl, lg) ==
  LET lg1 == LogCall(lg, lvl, DEBUG, "Running command:", cmd)
  IN IF proc.outcome = "sigint"
       THEN [log |-> lg1, exit |-> <<>>, raise |-> "KeyboardInterrupt", result |-> NoResult]
     ELSE IF proc.outcome = "OSError"
       THEN [log |-> lg1, exit |-> <<>>, raise |-> "Exception", result |-> NoResult]
     ELSE IF proc.rc # 0
       THEN LET lg2 == LogCall(lg1, lvl, ERROR, "Command failed:", cmd)
                lg3 == LogCall(lg2, lvl, ERROR, "Exit code:", ToString(proc.rc))
                lg4 == LogCall(lg3, lvl, ERROR, "Error output:", "stderr")
            IN [log |-> lg4, exit |-> <<1>>, raise |-> "none", result |-> NoResult]
     ELSE [log |-> IF proc.out # "" THEN LogCall(lg1, lvl, INFO, "stdout:", Strip(proc.out)) ELSE lg1,
           exit |-> <<>>, raise |-> "none",
           result |-> [returncode |-> proc.rc, stdout |-> proc.out]]

\* run_command that passes the child's return code on: sys.exit(e.returncode)
RunCommand_ExitsWithChildCode(cmd, check, proc, lvl, lg) ==
  LET lg1 == LogCall(lg, lvl, DEBUG, "Running command:", cmd)
  IN IF proc.outcome = "sigint"
       THEN [log |-> lg1, exit |-> <<>>, raise |-> "KeyboardInterrupt", result |-> NoResult]
     ELSE IF proc.outcome = "OSError"
       THEN [log |-> lg1, exit |-> <<>>, raise |-> "Exception", result |-> NoResult]
     ELSE IF check /\ proc.rc # 0
       THEN LET lg2 == LogCall(lg1, lvl, ERROR, "Command failed:", cmd)
                lg3 == LogCall(lg2, lvl, ERROR, "Exit code:", ToString(proc.rc))
                lg4 == LogCall(lg3, lvl, ERROR, "Error output:", "stderr")
            IN [log |-> lg4, exit |-> <<proc.rc>>, raise |-> "none", result |-> NoResult]
     ELSE [log |-> IF proc.out # "" THEN LogCall(lg1, lvl, INFO, "stdout:", Strip(proc.out)) ELSE lg1,
           exit |-> <<>>, raise |-> "none",
           result |-> [returncode |-> proc.rc, stdout |-> proc.out]]

\* run_command(cmd, cwd=None, check=True), lines 31-47.  proc is what the
\* child did: it completed with (rc, out), could not be spawned (OSError), or
\* the user interrupted the wait.  subprocess.run raises CalledProcessError
\* exactly when check is set and rc is non-zero; the handler logs three
\* errors and, if check, calls sys.exit(1), else returns the exception, which
\* carries the return code.  Any other exception leaves the function.
RunCommand(cmd, check, proc, lvl, lg) ==
  LET lg1 == LogCall(lg, lvl, DEBUG, "Running command:", cmd)
  IN IF proc.outcome = "sigint"
       THEN [log |-> lg1, exit |-> <<>>, raise |-> "KeyboardInterrupt", result |-> NoResult]
     ELSE IF proc.outcome = "OSError"
       THEN [log |-> lg1, exit |-> <<>>, raise |-> "Exception", result |-> NoResult]
     ELSE IF check /\ proc.rc # 0
       THEN LET lg2 == LogCall(lg1, lvl, ERROR, "Command failed:", cmd)
                lg3 == LogCall(lg2, lvl, ERROR, "Exit code:", ToString(proc.rc))
                lg4 == LogCall(lg3, lvl, ERROR, "Error output:", "stderr")
            IN IF check
                 THEN [log |-> lg4, exit |-> <<1>>, raise |-> "none", result |-> NoResult]
                 ELSE [log |-> lg4, exit |-> <<>>, raise |-> "none",
                       result |-> [returncode |-> proc.rc, stdout |-> proc.out]]
     ELSE [log |-> IF proc.out # "" THEN LogCall(lg1, lvl, INFO, "stdout:", Strip(proc.out)) ELSE lg1,
           exit |-> <<>>, raise |-> "none",
           result |-> [returncode |-> proc.rc, stdout |-> proc.out]]

\* what a child process can do
ProcOutcomes ==
  {[outcome |-> "completed", rc |-> rc, out |-> out] : rc \in 0..MaxRc, out \in Stdouts}
  \cup {[outcome |-> o, rc |-> 0, out |-> ""] : o \in {"OSError", "sigint"}}

\* ------------------------------------------------------------ download_file
\* what a fetch can do: succeed, fail with URLError (unreachable host, HTTP
\* error, short content), fail while reading with an exception that is not a
\* URLError (connection reset, incomplete read), or be interrupted
FetchOutcomes == {"ok", "URLError", "ConnectionError", "sigint"}

NetworkFailures == {"URLError", "ConnectionError"}

\* download_file whose handler logs the URLError and returns
DownloadFile_SwallowsError(url, destination, outcome, lvl, lg) ==
  LET lg1 == LogCall(lg, lvl, INFO, "Downloading", url)
  IN IF outcome = "ok"
       THEN [log |-> LogCall(lg1, lvl, DEBUG, "Successfully downloaded", destination),
             exit |-> <<>>, raise |-> "none"]
     ELSE IF outcome = "URLError"
       THEN [log |-> LogCall(lg1, lvl, ERROR, "Failed to download", url),
             exit |-> <<>>, raise |-> "none"]
     ELSE IF outcome = "sigint"
       THEN [log |-> lg1, exit |-> <<>>, raise |-> "KeyboardInterrupt"]
     ELSE [log |-> lg1, exit |-> <<>>, raise |-> "Exception"]

\* download_file(url, destination), lines 50-58
DownloadFile(url, destination, outcome, lvl, lg) ==
  LET lg1 == LogCall(lg, lvl, INFO, "Downloading", url)
  IN IF outcome = "ok"
       THEN [log |-> LogCall(lg1, lvl, DEBUG, "Successfully downloaded", destination),
             exit |-> <<>>, raise |-> "none"]
     ELSE IF outcome = "URLError"
       THEN [log |-> LogCall(lg1, lvl, ERROR, "Failed to download", url),
             exit |-> <<1>>, raise |-> "none"]
     ELSE IF outcome = "sigint"
       THEN [log |-> lg1, exit |-> <<>>, raise |-> "KeyboardInterrupt"]
     ELSE [log |-> lg1, exit |-> <<>>, raise |-> "Exception"]

\* download_and_execute_script, the fetch of lines 63-66 with the handler of
\* lines 77-79
FetchScript(url, script_name, outcome, lvl, lg) ==
  LET lg1 == LogCall(lg, lvl, INFO, "Downloading and executing", script_name)
  IN IF outcome = "ok"
       THEN [log |-> lg1, exit |-> <<>>, raise |-> "none"]
     ELSE IF outcome = "URLError"
       THEN [log |-> LogCall(lg1, lvl, ERROR, "Failed to download", url),
             exit |-> <<1>>, raise |-> "none"]
     ELSE IF outcome = "sigint"
       THEN [log |-> lg1, exit |-> <<>>, raise |-> "KeyboardInterrupt"]
     ELSE [log |-> lg1, exit |-> <<>>, raise |-> "Exception"]

\* an operation with no handler of its own: any exception leaves main()
LocalOutcomes == {"ok", "OSError", "sigint"}

Unhandled(outcome, lg) ==
  [log |-> lg, exit |-> <<>>,
   raise |-> IF outcome = "ok" THEN "none"
             ELSE IF outcome = "sigint" THEN "KeyboardInterrupt" ELSE "Exception"]

\* ------------------------------------------------------- the top-level try
TopLevelCatch_MissesInterrupt(exc) == "except_Exception"

\* lines 163-170: which except clause takes an exception leaving main().
\* SystemExit matches neither clause and ends the process with its code.
TopLevelCatch(exc) ==
  IF exc = "KeyboardInterrupt" THEN "except_KeyboardInterrupt" ELSE "except_Exception"

\* --------------------------------------------------- the sequence of main()
MainSequence ==
  <<"chdir", "urlopen", "mktemp", "chmod", "bash_tmp", "unlink",
    "dl_ringgem_zip", "dl_zip_installer", "dl_taskfile", "task_install_zip",
    "mkdir", "extract", "task_list_all", "task_install_testscript", "complete">>

IndexOf(seq, x) == CHOOSE i \in 1..Len(seq) : seq[i] = x

SeqNext(seq, op) == seq[IndexOf(seq, op) + 1]

\* main() that extracts the archive before it downloads it
NextStep_ExtractFirst(op) ==
  SeqNext(<<"chdir", "urlopen", "mktemp", "chmod", "bash_tmp", "unlink",
            "mkdir", "extract", "dl_ringgem_zip", "dl_zip_installer",
            "dl_taskfile", "task_install_zip", "task_list_all",
            "task_install_testscript", "complete">>, op)

\* main() that never extracts the archive
NextStep_SkipsExtract(op) ==
  SeqNext(<<"chdir", "urlopen", "mktemp", "chmod", "bash_tmp", "unlink",
            "dl_ringgem_zip", "dl_zip_installer", "dl_taskfile", "task_install_zip",
            "mkdir", "task_list_all", "task_install_testscript", "complete">>, op)

\* main() that downloads Taskfile.yaml before the zip installer script
NextStep_TaskfileFirst(op) ==
  SeqNext(<<"chdir", "urlopen", "mktemp", "chmod", "bash_tmp", "unlink",
            "dl_ringgem_zip", "dl_taskfile", "dl_zip_installer", "task_install_zip",
            "mkdir", "extract", "task_list_all", "task_install_testscript",
            "complete">>, op)

\* the statement main() reaches after op returns normally
NextStep(op) == SeqNext(MainSequence, op)

\* the numbered step of main() an operation belongs to: chdir, fetch-and-run
\* (lines 99-103), three downloads, install-zip, mkdir, extract, list-all,
\* install-testscript, completion
MainStep(op) ==
  CASE op = "chdir" -> 1
    [] op \in {"urlopen", "mktemp", "chmod", "bash_tmp", "unlink"} -> 2
    [] op = "dl_ringgem_zip" -> 3
    [] op = "dl_zip_installer" -> 4
    [] op = "dl_taskfile" -> 5
    [] op = "task_install_zip" -> 6
    [] op = "mkdir" -> 7
    [] op = "extract" -> 8
    [] op = "task_list_all" -> 9
    [] op = "task_install_testscript" -> 10
    [] OTHER -> 11

\* ------------------------------------------------------------------ state
Init ==
  /\ argv \in ArgvSet
  /\ pyVersion \in PyVersions
  /\ pc = "parse_args"
  /\ verbosity = 0
  /\ level = WARNING
  /\ log = <<>>
  /\ \E d \in {"absent", "whole"} :
       fs = [f \in Files |-> IF f = RinggemDir THEN d ELSE "absent"]
  /\ cwd = "start"
  /\ hist = <<>>
  /\ call = NoCall
  /\ lastResult = NoResult
  /\ exitCode = <<>>

\* the record hist keeps of an operation: what it was, how it ended, and the
\* state in which it found each file it reads
Event(op, kind, outcome, rc, reads) ==
  [op |-> op, step |-> MainStep(op), kind |-> kind, outcome |-> outcome,
   rc |-> rc, reads |-> {<<f, fs[f]>> : f \in reads}]

\* where control goes after an operation whose result is r: the process
\* exits (sys.exit), an exception reaches the top-level try, or main() goes on
Continue(r, op) ==
  /\ log' = r.log
  /\ IF r.exit # <<>>
       THEN pc' = "exited" /\ exitCode' = r.exit
     ELSE IF r.raise # "none"
       THEN pc' = TopLevelCatch(r.raise) /\ exitCode' = exitCode
     ELSE pc' = NextStep(op) /\ exitCode' = exitCode

\* --------------------------------------------------------------- __main__
\* lines 146-155
ParseArgsStep ==
  /\ pc = "parse_args"
  /\ LET r == ParseArgs(argv)
     IN IF r.exit # <<>>
          THEN pc' = "exited" /\ exitCode' = r.exit /\ verbosity' = verbosity
          ELSE pc' = "setup_logging" /\ exitCode' = exitCode /\ verbosity' = r.verbose
  /\ UNCHANGED <<argv, pyVersion, level, log, fs, cwd, hist, call, lastResult>>

\* line 156
SetupLogging ==
  /\ pc = "setup_logging"
  /\ level' = SetupLoggingLevel(verbosity)
  /\ pc' = "version_check"
  /\ UNCHANGED <<argv, pyVersion, verbosity, log, fs, cwd, hist, call, lastResult, exitCode>>

\* lines 159-164
VersionCheck ==
  /\ pc = "version_check"
  /\ IF VersionTooOld(pyVersion)
       THEN /\ log' = LogCall(log, level, ERROR, "This script requires Python 3.12 or higher", "")
            /\ pc' = "exited"
            /\ exitCode' = <<1>>
       ELSE /\ pc' = "chdir"
            /\ UNCHANGED <<log, exitCode>>
  /\ UNCHANGED <<argv, pyVersion, verbosity, level, fs, cwd, hist, call, lastResult>>

\* lines 165-167
HandleKeyboardInterrupt ==
  /\ pc = "except_KeyboardInterrupt"
  /\ log' = LogCall(log, level, WARNING, "Setup interrupted by user", "")
  /\ pc' = "exited"
  /\ exitCode' = <<1>>
  /\ UNCHANGED <<argv, pyVersion, verbosity, level, fs, cwd, hist, call, lastResult>>

\* lines 168-170
HandleException ==
  /\ pc = "except_Exception"
  /\ log' = LogCall(log, level, ERROR, "Unexpected error:", "e")
  /\ pc' = "exited"
  /\ exitCode' = <<1>>
  /\ UNCHANGED <<argv, pyVersion, verbosity, level, fs, cwd, hist, call, lastResult>>

\* ------------------------------------------------------------------ main()
\* lines 84-89
Chdir ==
  /\ pc = "chdir"
  /\ \E o \in LocalOutcomes :
       LET lg1 == LogCall(log, level, INFO, "Starting Ringgem setup", "")
           lg2 == LogCall(lg1, level, DEBUG, "Working in:", "/tmp")
       IN /\ Continue(Unhandled(o, IF o = "ok" THEN lg2 ELSE lg1), "chdir")
          /\ cwd' = IF o = "ok" THEN "/tmp" ELSE cwd
          /\ hist' = Append(hist, Event("chdir", "fs", o, 0, {}))
  /\ UNCHANGED <<argv, pyVersion, verbosity, level, fs, call, lastResult>>

\* lines 100-103 and 63-66, 77-79
FetchInstaller ==
  /\ pc = "urlopen"
  /\ \E o \in FetchOutcomes :
       LET lg1 == LogCall(log, level, INFO, "Installing go-task", "")
       IN /\ Continue(FetchScript(Urls.go_task_installer, "install-go-task-on-linux.sh",
                                  o, level, lg1), "urlopen")
          /\ hist' = Append(hist, Event("urlopen", "fetch", o, 0, {}))
  /\ UNCHANGED <<argv, pyVersion, verbosity, level, fs, cwd, call, lastResult>>

\* lines 69-71: the file is created with delete=False, so a failed or
\* interrupted write may leave it behind
WriteTemp ==
  /\ pc = "mktemp"
  /\ \E o \in LocalOutcomes :
       /\ Continue(Unhandled(o, log), "mktemp")
       /\ \E left \in {"absent", "partial"} :
            fs' = [fs EXCEPT ![TmpScript] = IF o = "ok" THEN "whole" ELSE left]
       /\ hist' = Append(hist, Event("mktemp", "fs", o, 0, {}))
  /\ UNCHANGED <<argv, pyVersion, verbosity, level, cwd, call, lastResult>>

\* line 73
Chmod ==
  /\ pc = "chmod"
  /\ \E o \in LocalOutcomes :
       /\ Continue(Unhandled(o, log), "chmod")
       /\ hist' = Append(hist, Event("chmod", "fs", o, 0, {}))
  /\ UNCHANGED <<argv, pyVersion, verbosity, level, fs, cwd, call, lastResult>>

\* a run_command(cmd) call of main(): check keeps its default, True
RunChecked(op, cmd, lg, reads) ==
  \E proc \in ProcOutcomes :
    LET r == RunCommand(cmd, TRUE, proc, level, lg)
    IN /\ Continue(r, op)
       /\ call' = [cmd |-> cmd, check |-> TRUE]
       /\ lastResult' = r.result
       /\ hist' = Append(hist, Event(op, "run", proc.outcome, proc.rc, reads))
       /\ fs' = IF op = "bash_tmp" /\ proc.outcome = "completed" /\ proc.rc = 0
                  THEN [fs EXCEPT ![TaskBin] = "whole"]
                  ELSE fs

\* line 74: the installer, when it succeeds, puts the task runner on the path
RunTempScript ==
  /\ pc = "bash_tmp"
  /\ RunChecked("bash_tmp", CmdBashTmp, log, {TmpScript})
  /\ UNCHANGED <<argv, pyVersion, verbosity, level, cwd>>

\* line 75
UnlinkTemp ==
  /\ pc = "unlink"
  /\ \E o \in LocalOutcomes :
       /\ Continue(Unhandled(o, log), "unlink")
       /\ fs' = IF o = "ok" THEN [fs EXCEPT ![TmpScript] = "absent"] ELSE fs
       /\ hist' = Append(hist, Event("unlink", "fs", o, 0, {}))
  /\ UNCHANGED <<argv, pyVersion, verbosity, level, cwd, call, lastResult>>

\* a download_file call of main(): urlretrieve writes the destination as the
\* bytes arrive, so a failed or interrupted transfer may leave a partial file
Download(op, url, destination, lg) ==
  \E o \in FetchOutcomes :
    /\ Continue(DownloadFile(url, destination, o, level, lg), op)
    /\ \E left \in {fs[destination], "partial"} :
         fs' = [fs EXCEPT ![destination] = IF o = "ok" THEN "whole" ELSE left]
    /\ hist' = Append(hist, Event(op, "fetch", o, 0, {}))

\* lines 106-107
DownloadRinggemZip ==
  /\ pc = "dl_ringgem_zip"
  /\ Download("dl_ringgem_zip", Urls.ringgem_zip, RinggemZip,
              LogCall(log, level, INFO, "Downloading ringgem.zip", ""))
  /\ UNCHANGED <<argv, pyVersion, verbosity, level, cwd, call, lastResult>>

\* lines 110-111
DownloadZipInstaller ==
  /\ pc = "dl_zip_installer"
  /\ Download("dl_zip_installer", Urls.zip_installer, ZipInstaller,
              LogCall(log, level, INFO, "Downloading zip installer", ""))
  /\ UNCHANGED <<argv, pyVersion, verbosity, level, cwd, call, lastResult>>

\* lines 114-115
DownloadTaskfile ==
  /\ pc = "dl_taskfile"
  /\ Download("dl_taskfile", Urls.taskfile, Taskfile,
              LogCall(log, level, INFO, "Downloading Taskfile.yaml", ""))
  /\ UNCHANGED <<argv, pyVersion, verbosity, level, cwd, call, lastResult>>

\* lines 118-119: task runs in /tmp, where Taskfile.yaml and the installer
\* script it calls were downloaded
TaskInstallZip ==
  /\ pc = "task_install_zip"
  /\ RunChecked("task_install_zip", CmdInstallZip,
                LogCall(log, level, INFO, "Installing zip", ""),
                {TaskBin, Taskfile, ZipInstaller})
  /\ UNCHANGED <<argv, pyVersion, verbosity, level, cwd>>

\* lines 122-124: mkdir(parents=True, exist_ok=True)
Mkdir ==
  /\ pc = "mkdir"
  /\ \E o \in LocalOutcomes :
       /\ Continue(Unhandled(o, LogCall(log, level, INFO, "Setting up ringgem directory", "")),
                   "mkdir")
       /\ fs' = IF o = "ok" THEN [fs EXCEPT ![RinggemDir] = "whole"] ELSE fs
       /\ hist' = Append(hist, Event("mkdir", "fs", o, 0, {}))
  /\ UNCHANGED <<argv, pyVersion, verbosity, level, cwd, call, lastResult>>

\* lines 127-129: a bad archive or a write error raises; what was extracted
\* before the failure stays
Extract ==
  /\ pc = "extract"
  /\ \E o \in LocalOutcomes :
       /\ Continue(Unhandled(o, LogCall(log, level, DEBUG, "Extracting ringgem.zip to", RinggemDir)),
                   "extract")
       /\ \E left \in {fs[RinggemMasterDir], "partial"} :
            fs' = [fs EXCEPT ![RinggemMasterDir] = IF o = "ok" THEN "whole" ELSE left]
       /\ hist' = Append(hist, Event("extract", "fs", o, 0, {RinggemZip, RinggemDir}))
  /\ UNCHANGED <<argv, pyVersion, verbosity, level, cwd, call, lastResult>>

\* lines 132-134
TaskListAll ==
  /\ pc = "task_list_all"
  /\ RunChecked("task_list_all", CmdListAll,
                LogCall(log, level, INFO, "Listing available tasks", ""),
                {TaskBin, RinggemMasterDir})
  /\ UNCHANGED <<argv, pyVersion, verbosity, level, cwd>>

\* lines 137-138
TaskInstallTestscript ==
  /\ pc = "task_install_testscript"
  /\ RunChecked("task_install_testscript", CmdInstallTestscript,
                LogCall(log, level, INFO, "Installing testscript", ""),
                {TaskBin, RinggemMasterDir})
  /\ UNCHANGED <<argv, pyVersion, verbosity, level, cwd>>

\* lines 140-142, then main() returns and the script ends: exit status 0
Complete ==
  /\ pc = "complete"
  /\ log' = LogCall(LogCall(LogCall(log, level, INFO, "Setup complete", ""),
                            level, INFO, "Ringgem installed in:", RinggemDir),
                    level, INFO, "To use tasks, run: task --dir=", RinggemMasterDir)
  /\ pc' = "exited"
  /\ exitCode' = <<0>>
  /\ UNCHANGED <<argv, pyVersion, verbosity, level, fs, cwd, hist, call, lastResult>>

Next ==
  \/ ParseArgsStep
  \/ SetupLogging
  \/ VersionCheck
  \/ Chdir
  \/ FetchInstaller
  \/ WriteTemp
  \/ Chmod
  \/ RunTempScript
  \/ UnlinkTemp
  \/ DownloadRinggemZip
  \/ DownloadZipInstaller
  \/ DownloadTaskfile
  \/ TaskInstallZip
  \/ Mkdir
  \/ Extract
  \/ TaskListAll
  \/ TaskInstallTestscript
  \/ Complete
  \/ HandleKeyboardInterrupt
  \/ HandleException

Spec == Init /\ [][Next]_vars

\* ------------------------------------------- run_command called on its own
\* A caller that hands run_command any of the command lines with either value
\* of check, and then executes its next statement.
InitRunCommand ==
  /\ argv = <<>>
  /\ pyVersion = <<MinMajor, MinMinor>>
  /\ pc = "caller_call"
  /\ verbosity \in 0..MaxArgs
  /\ level = SetupLoggingLevel(verbosity)
  /\ log = <<>>
  /\ fs = [f \in Files |-> "absent"]
  /\ cwd = "start"
  /\ hist = <<>>
  /\ call \in [cmd : Commands, check : BOOLEAN]
  /\ lastResult = NoResult
  /\ exitCode = <<>>

\* result = run_command(cmd, check=check), lines 31-47
CallerCall ==
  /\ pc = "caller_call"
  /\ \E proc \in ProcOutcomes :
       LET r == RunCommand(call.cmd, call.check, proc, level, log)
       IN /\ log' = r.log
          /\ lastResult' = r.result
          /\ hist' = Append(hist, [op |-> "run_command", step |-> 0, kind |-> "run",
                                   outcome |-> proc.outcome, rc |-> proc.rc, reads |-> {}])
          /\ IF r.exit # <<>>
               THEN pc' = "exited" /\ exitCode' = r.exit
             ELSE IF r.raise # "none"
               THEN pc' = "caller_raised" /\ exitCode' = exitCode
             ELSE pc' = "caller_next" /\ exitCode' = exitCode
  /\ UNCHANGED <<argv, pyVersion, verbosity, level, fs, cwd, call>>

\* the statement after the call, reached only when run_command returned
CallerNext ==
  /\ pc = "caller_next"
  /\ pc' = "caller_done"
  /\ UNCHANGED <<argv, pyVersion, verbosity, level, log, fs, cwd, hist, call,
                 lastResult, exitCode>>

NextRunCommand == CallerCall \/ CallerNext

SpecRunCommand == InitRunCommand /\ [][NextRunCommand]_vars

\* ============================================================ properties
Exited == pc = "exited"

ArgsAccepted == ParseArgs(argv).exit = <<>>

\* the runtime is older than 3.12
BelowMinimum == pyVersion[1] * 100 + pyVersion[2] < MinMajor * 100 + MinMinor

StepOk(e) == e.outcome = "ok" \/ (e.outcome = "completed" /\ e.rc = 0)

HasEvent(op) == \E i \in 1..Len(hist) : hist[i].op = op

Succeeded(op) == \E i \in 1..Len(hist) : hist[i].op = op /\ StepOk(hist[i])

LastEvent == hist[Len(hist)]

\* the position, in the run, of the step of main() that event i belongs to
StepAt(i) == Cardinality({hist[k].step : k \in 1..i})

\* the operation that produces each file
ProducerOf(f) ==
  CASE f = TmpScript -> "mktemp"
    [] f = TaskBin -> "bash_tmp"
    [] f = RinggemZip -> "dl_ringgem_zip"
    [] f = ZipInstaller -> "dl_zip_installer"
    [] f = Taskfile -> "dl_taskfile"
    [] f = RinggemDir -> "mkdir"
    [] f = RinggemMasterDir -> "extract"

\* ----------------------------------------------------------------- C1
\* C1: once the temporary script has been created and the script has been
\* run, the temporary file no longer exists when the process has left
\* download_and_execute_script, whether the script returned zero or not
\* (the removal itself not having failed).
C1_TempFileRemoved ==
  (/\ Succeeded("mktemp")
   /\ \E i \in 1..Len(hist) : hist[i].op = "bash_tmp" /\ hist[i].outcome = "completed"
   /\ pc \notin {"bash_tmp", "unlink"}
   /\ \A i \in 1..Len(hist) : hist[i].op = "unlink" => hist[i].outcome = "ok")
  => fs[TmpScript] = "absent"

\* ----------------------------------------------------------------- C2
\* C2: a checked command of main() that exits non-zero is the last operation
\* of the run: the process has exited with code 1 and nothing ran after it.
C2_FailedCommandTerminates ==
  \A i \in 1..Len(hist) :
    (hist[i].kind = "run" /\ hist[i].outcome = "completed" /\ hist[i].rc # 0)
    => /\ i = Len(hist)
       /\ Exited
       /\ exitCode = <<1>>
       /\ call.check

\* --list-all exited with code 2: exit code 1, install-testscript never run
C2_Witness ==
  /\ Exited
  /\ exitCode = <<1>>
  /\ hist # <<>>
  /\ LastEvent.op = "task_list_all"
  /\ LastEvent.rc = 2
  /\ ~HasEvent("task_install_testscript")

\* ----------------------------------------------------------------- C3
\* C3: a network failure in any of the four fetches is the last operation of
\* the run, the process ends with exit code 1, and when the failed fetch is
\* that of the go-task installer no temporary file exists and no script ran.
C3_NetworkFailureTerminates ==
  \A i \in 1..Len(hist) :
    (hist[i].kind = "fetch" /\ hist[i].outcome \in NetworkFailures)
    => /\ i = Len(hist)
       /\ pc \in {"exited", "except_Exception"}
       /\ Exited => exitCode = <<1>>
       /\ hist[i].op = "urlopen"
            => (fs[TmpScript] = "absent" /\ ~HasEvent("mktemp") /\ ~HasEvent("bash_tmp"))

C3_Witness ==
  /\ Exited
  /\ exitCode = <<1>>
  /\ hist # <<>>
  /\ LastEvent.op = "dl_taskfile"
  /\ LastEvent.outcome = "URLError"
  /\ ~HasEvent("task_install_zip")

\* ----------------------------------------------------------------- C4
\* C4: run_command called with check disabled on a command that exits
\* non-zero does not end the process: it returns a result carrying that
\* return code and the caller goes on.
C4_UncheckedFailureReturns ==
  (hist # <<>> /\ ~call.check /\ LastEvent.outcome = "completed" /\ LastEvent.rc # 0)
  => /\ pc \in {"caller_next", "caller_done"}
     /\ exitCode = <<>>
     /\ lastResult.returncode = LastEvent.rc

C4_Witness ==
  /\ pc = "caller_done"
  /\ ~call.check
  /\ lastResult.returncode = 2

\* ----------------------------------------------------------------- C5
AllStepsSucceeded ==
  /\ Len(hist) = Len(MainSequence) - 1
  /\ \A i \in 1..Len(hist) : StepOk(hist[i])

SomeStepFailed == \E i \in 1..Len(hist) : ~StepOk(hist[i])

\* the version check ran, on a runtime older than 3.12
VersionCheckFailed == BelowMinimum /\ ArgsAccepted

NothingStarted == hist = <<>> /\ log = <<>> /\ cwd = "start"

\* C5 as stated: every terminating run ends with exit code 0 or 1, 0 when
\* every step succeeded and 1 for every failure.
C5_Original ==
  Exited => /\ exitCode \in {<<0>>, <<1>>}
            /\ AllStepsSucceeded => exitCode = <<0>>
            /\ (VersionCheckFailed \/ SomeStepFailed) => exitCode = <<1>>

\* C5, amended: every terminating run whose command line the argument parser
\* accepts ends with exit code 0 or 1: 0 when every step succeeded, 1 after a
\* version check failure, a network failure, a non-zero subprocess, an
\* unexpected exception or an interrupt during main(); a command line the
\* parser rejects ends the run with exit code 2 (and a request for help with
\* exit code 0) before the version check.
C5_ExitCodes ==
  Exited =>
    /\ ArgsAccepted =>
         /\ exitCode \in {<<0>>, <<1>>}
         /\ AllStepsSucceeded => exitCode = <<0>>
         /\ (VersionCheckFailed \/ SomeStepFailed) => exitCode = <<1>>
    /\ ~ArgsAccepted =>
         /\ NothingStarted
         /\ exitCode = IF Contains(argv, "-h") THEN <<0>> ELSE <<2>>

\* a failed mkdir: the exception reaches the top level, exit code 1
C5_Witness ==
  /\ Exited
  /\ ArgsAccepted
  /\ exitCode = <<1>>
  /\ hist # <<>>
  /\ LastEvent.op = "mkdir"
  /\ LastEvent.outcome = "OSError"

\* ----------------------------------------------------------------- C6
NoWorkDone ==
  /\ hist = <<>>
  /\ cwd = "start"
  /\ call = NoCall
  /\ \A f \in Files \ {RinggemDir} : fs[f] = "absent"

\* C6 as stated: with a runtime below 3.12 the process exits with code 1
\* before any work begins.
C6_Original ==
  (Exited /\ BelowMinimum) => (exitCode = <<1>> /\ NoWorkDone)

\* C6, amended: with a runtime below 3.12 main() is never entered and no
\* work is done, and when the command line was accepted by the argument
\* parser the process exits with code 1.
C6_VersionGate ==
  BelowMinimum =>
    /\ pc \in {"parse_args", "setup_logging", "version_check", "exited"}
    /\ NoWorkDone
    /\ (Exited /\ ArgsAccepted) => exitCode = <<1>>

C6_Witness ==
  /\ Exited
  /\ BelowMinimum
  /\ ArgsAccepted
  /\ exitCode = <<1>>
  /\ NoWorkDone
  /\ Len(log) = 1
  /\ log[1].level = ERROR

\* ----------------------------------------------------------------- C7
Warnings ==
  {i \in 1..Len(log) : log[i].msg = <<"Setup interrupted by user", "">>}

\* C7: an interrupt during a step of main() is the last operation of the run;
\* it is taken by the KeyboardInterrupt clause of the top-level try, which
\* logs the warning once (the handler emits it unless the threshold is ERROR)
\* and exits with code 1; the Exception clause does not run.
C7_InterruptCaughtOnce ==
  \A i \in 1..Len(hist) :
    hist[i].outcome = "sigint"
    => /\ i = Len(hist)
       /\ pc \in {"except_KeyboardInterrupt", "exited"}
       /\ pc = "except_KeyboardInterrupt" => (Warnings = {} /\ exitCode = <<>>)
       /\ Exited =>
            /\ exitCode = <<1>>
            /\ Warnings = {Len(log)}
            /\ log[Len(log)].level = WARNING
            /\ log[Len(log)].emitted <=> verbosity >= 1
            /\ \A k \in 1..Len(log) : log[k].msg # <<"Unexpected error:", "e">>

C7_Witness ==
  /\ Exited
  /\ exitCode = <<1>>
  /\ hist # <<>>
  /\ LastEvent.op = "extract"
  /\ LastEvent.outcome = "sigint"
  /\ Warnings # {}
  /\ ~HasEvent("task_list_all")

\* ----------------------------------------------------------------- C8
\* C8: the operations occur in the fixed order of main(), and every file an
\* operation reads is whole, its producer having completed successfully
\* earlier in the run (the destination directory may also have existed
\* before the run).
C8_InputsPresentInOrder ==
  /\ Len(hist) < Len(MainSequence)
  /\ \A i \in 1..Len(hist) :
       /\ hist[i].op = MainSequence[i]
       /\ \A r \in hist[i].reads :
            /\ r[2] = "whole"
            /\ r[1] # RinggemDir =>
                 \E j \in 1..(i - 1) : hist[j].op = ProducerOf(r[1]) /\ StepOk(hist[j])
       /\ hist[i].op = "extract" => Succeeded("mkdir")

C8_Witness ==
  /\ HasEvent("task_install_testscript")
  /\ HasEvent("extract")
  /\ Len(hist) = Len(MainSequence) - 1

\* ----------------------------------------------------------------- C9
ClaimedFiles == {TmpScript, RinggemZip, ZipInstaller, Taskfile, RinggemMasterDir}

\* how many steps after the step that produced it a file is read
ReadDistances(f) ==
  CASE f = TmpScript -> {0}
    [] f = Taskfile -> {1}
    [] f = ZipInstaller -> {2}
    [] f = RinggemZip -> {5}
    [] f = RinggemMasterDir -> {1, 2}

\* C9 as stated: a file is read only by the step directly after the one that
\* produced it (the temporary script, made and run inside fetch-and-run,
\* counted as such).
C9_Original ==
  \A i \in 1..Len(hist) : \A r \in hist[i].reads :
    (r[1] \in ClaimedFiles /\ StepOk(hist[i])) =>
      \E j \in 1..(i - 1) :
        /\ hist[j].op = ProducerOf(r[1])
        /\ StepAt(i) - StepAt(j) \in {0, 1}

\* C9, amended: a file is read only after the step that produced it: the
\* temporary script inside fetch-and-run, Taskfile.yaml by the step directly
\* after its download, install-zip-on-linux.sh two steps after its download,
\* ringgem.zip by the extraction five steps after its download, and the
\* extracted directory by both of the two steps after the extraction.
C9_ReadDistances ==
  /\ \A i \in 1..Len(hist) : \A r \in hist[i].reads :
       r[1] \in ClaimedFiles =>
         \E j \in 1..(i - 1) :
           /\ hist[j].op = ProducerOf(r[1])
           /\ StepOk(hist[j])
           /\ StepAt(i) - StepAt(j) \in ReadDistances(r[1])
  /\ (Exited /\ exitCode = <<0>> /\ ArgsAccepted) =>
       \A f \in ClaimedFiles : \A d \in ReadDistances(f) :
         \E i \in 1..Len(hist) : \E j \in 1..(i - 1) :
           /\ <<f, "whole">> \in hist[i].reads
           /\ hist[j].op = ProducerOf(f)
           /\ StepAt(i) - StepAt(j) = d

C9_Witness ==
  /\ \E i \in 1..Len(hist) :
       hist[i].op = "extract" /\ <<RinggemZip, "whole">> \in hist[i].reads
  /\ \E i \in 1..Len(hist) :
       hist[i].op = "task_install_testscript"
       /\ <<RinggemMasterDir, "whole">> \in hist[i].reads

\* ----------------------------------------------------------------- C10
Fetches == {i \in 1..Len(hist) : hist[i].kind = "fetch"}

Runs == {i \in 1..Len(hist) : hist[i].kind = "run"}

RunOrder == <<"bash_tmp", "task_install_zip", "task_list_all", "task_install_testscript">>

FullSuccess ==
  /\ Cardinality(Fetches) = 4
  /\ \A i \in Fetches : hist[i].outcome = "ok"
  /\ Cardinality(Runs) = 4
  /\ \A i \in Runs : hist[i].outcome = "completed" /\ hist[i].rc = 0
  /\ \A n \in 1..4 : \E i \in Runs :
       hist[i].op = RunOrder[n] /\ Cardinality({k \in Runs : k < i}) = n - 1
  /\ Succeeded("extract")
  /\ fs[RinggemZip] = "whole"
  /\ fs[RinggemMasterDir] = "whole"

NoRetry == \A i, j \in 1..Len(hist) : hist[i].op = hist[j].op => i = j

\* C10 as stated: a run ends with exit code 0 only after all four fetches and
\* all four commands succeeded, once each and in order, and the archive was
\* extracted; nothing is attempted twice.
C10_Original ==
  /\ NoRetry
  /\ (Exited /\ exitCode = <<0>>) => FullSuccess

\* C10, amended: a run that was not asked for help (-h) ends with exit code 0
\* only after all four fetches and all four commands succeeded, once each and
\* in order, and the archive was extracted; nothing is attempted twice.
C10_ZeroOnlyOnFullSuccess ==
  /\ NoRetry
  /\ (Exited /\ exitCode = <<0>> /\ ~Contains(argv, "-h")) => FullSuccess

C10_Witness ==
  /\ Exited
  /\ exitCode = <<0>>
  /\ FullSuccess
  /\ verbosity = 2

====
